---- MODULE Spec2Model ----
(***************************************************************************)
(* Model of the tonality crate: the line-of-fifths coordinate algebra of   *)
(* Step, Accidental, Alteration, Interval, Key and Tpc.                    *)
(*                                                                         *)
(* Every operation of the crate is a pure function.  A behaviour of the    *)
(* model is one call: Init draws the operation and its arguments, the      *)
(* action of that operation computes the value the code returns.           *)
(* Enum values are modelled by their variant names; `as i8` and            *)
(* FromPrimitive::from_i8 are the conversions between a name and its       *)
(* discriminant.  i8 arithmetic keeps its width: an overflowing operation  *)
(* panics when the build has overflow checks and wraps when it has not.    *)
(***************************************************************************)
EXTENDS Integers, Sequences, FiniteSets, TLC

\* Bound of the model: scale degrees are drawn from -MaxDegree..MaxDegree.
MaxDegree == 10

\* Bound of the model: isize operands of Step arithmetic are drawn from within
\* MaxOperand of zero, of isize::MIN and of isize::MAX.
MaxOperand == 10

----------------------------------------------------------------------------
\* Outcomes of a call
Some(x) == [kind |-> "Some", val |-> x]
None == [kind |-> "None"]
Val(x) == [kind |-> "Val", val |-> x]
Panic == [kind |-> "Panic"]
Pending == [kind |-> "Pending"]

\* A panic in a sub-expression unwinds through the caller.
Bind(r, F(_)) == IF r.kind = "Panic" THEN Panic ELSE F(r.val)

\* The same, for a callee whose outcome is an Option
BindR(r, F(_)) == IF r.kind = "Panic" THEN Panic ELSE F(r)

----------------------------------------------------------------------------
\* Machine integers
I8Bits == 8
I8_MIN == -(2 ^ (I8Bits - 1))
I8_MAX == 2 ^ (I8Bits - 1) - 1
I8 == I8_MIN .. I8_MAX

WrapI8(x) == ((x - I8_MIN) % (2 ^ I8Bits)) + I8_MIN

\* The result x of one i8 operation: with overflow checks (oc) an
\* out-of-range result panics, without them it wraps.
I8Arith(x, oc) ==
    IF x \in I8 THEN Val(x)
    ELSE IF oc THEN Panic
    ELSE Val(WrapI8(x))

\* isize is the pointer-sized integer. It is modelled at the narrowest
\* pointer width of a Rust target, 16 bits; 2^16 and 2^64 leave the same
\* remainder (2) modulo 7, so a wrapped sum lands on the same step at
\* either width.
ISizeBits == 16
ISIZE_MIN == -(2 ^ (ISizeBits - 1))
ISIZE_MAX == 2 ^ (ISizeBits - 1) - 1
ISize == ISIZE_MIN .. ISIZE_MAX

WrapISize(x) == ((x - ISIZE_MIN) % (2 ^ ISizeBits)) + ISIZE_MIN

\* The result x of one isize operation
ISizeArith(x, oc) ==
    IF x \in ISize THEN Val(x)
    ELSE IF oc THEN Panic
    ELSE Val(WrapISize(x))

\* i8 `/`: truncates toward zero (divisor positive here)
TruncDiv(a, b) == IF a >= 0 THEN a \div b ELSE -((-a) \div b)

\* rem_euclid / div_euclid with a positive divisor
RemEuclid(a, b) == a % b
DivEuclid(a, b) == a \div b

----------------------------------------------------------------------------
\* Enums: variant names in declaration order, and the first discriminant.
IndexOf(names, x) == CHOOSE i \in 1 .. Len(names) : names[i] = x
Range(names) == {names[i] : i \in 1 .. Len(names)}

\* `variant as i8`
AsInt(names, first, x) == first + IndexOf(names, x) - 1

\* FromPrimitive::from_i8 as derived: the variant with that discriminant
FromPrimitive(names, first, v) ==
    IF v - first + 1 \in 1 .. Len(names) THEN Some(names[v - first + 1]) ELSE None

\* Option::unwrap
Unwrap(o) == IF o.kind = "Some" THEN Val(o.val) ELSE Panic

TpcNames ==
    << "Fbb",
              "Cbb", "Gbb", "Dbb", "Abb", "Ebb", "Bbb",
       "Fb",  "Cb",  "Gb",  "Db",  "Ab",  "Eb",  "Bb",
       "F",   "C",   "G",   "D",   "A",   "E",   "B",
       "Fs",  "Cs",  "Gs",  "Ds",  "As",  "Es",  "Bs",
       "Fss", "Css", "Gss", "Dss", "Ass", "Ess", "Bss" >>
TpcFirst == -15
Tpc == Range(TpcNames)
TpcAsI8(t) == AsInt(TpcNames, TpcFirst, t)
Tpc_from_i8(v) == FromPrimitive(TpcNames, TpcFirst, v)
Tpc_MAX == "Bss"
Tpc_MIN == "Fbb"
DELTA_SEMITONE == 7

StepNames == << "C", "D", "E", "F", "G", "A", "B" >>
StepFirst == 0
Step == Range(StepNames)
StepAsI8(s) == AsInt(StepNames, StepFirst, s)

AccidentalNames == << "DblFlat", "Flat", "Natural", "Sharp", "DblSharp" >>
AccidentalFirst == -2
Accidental == Range(AccidentalNames)
AccidentalAsI8(a) == AsInt(AccidentalNames, AccidentalFirst, a)

KeyNames ==
    << "Cb", "Gb", "Db", "Ab", "Eb", "Bb", "F", "C",
       "G", "D", "A", "E", "B", "Fs", "Cs" >>
KeyFirst == -7
Key == Range(KeyNames)
KeyAsI8(k) == AsInt(KeyNames, KeyFirst, k)
Key_MIN == "Cb"
Key_MAX == "Cs"
Key_NUM_OF == KeyAsI8(Key_MAX) - KeyAsI8(Key_MIN) + 1
Key_default == "C"

IntervalNames ==
    << "Dim2", "Dim6", "Dim3", "Dim7", "Dim4", "Dim1", "Dim5",
       "Min2", "Min6", "Min3", "Min7", "P4", "Unison", "P5",
       "Maj2", "Maj6", "Maj3", "Maj7", "Aug4", "Aug1", "Aug5",
       "Aug2", "Aug6", "Aug3", "Aug7" >>
IntervalFirst == -12
Interval == Range(IntervalNames)
IntervalAsI8(i) == AsInt(IntervalNames, IntervalFirst, i)
Interval_from_i8(v) == FromPrimitive(IntervalNames, IntervalFirst, v)

\* Alteration is the plain i8
Alteration == I8

----------------------------------------------------------------------------
\* Tpc

\* Mutant: the step taken with the truncating remainder `%`, which is
\* negative for a negative coordinate and then falls to the default arm
Tpc_step_Rem(self) ==
    LET c == TpcAsI8(self)
        r == IF c >= 0 THEN c % 7 ELSE -((-c) % 7)
    IN CASE r = 0 -> "C"
         [] r = 1 -> "G"
         [] r = 2 -> "D"
         [] r = 3 -> "A"
         [] r = 4 -> "E"
         [] r = 5 -> "B"
         [] OTHER -> "F"

\* Tpc::step
Tpc_step(self) ==
    LET r == RemEuclid(TpcAsI8(self), 7)
    IN CASE r = 0 -> "C"
         [] r = 1 -> "G"
         [] r = 2 -> "D"
         [] r = 3 -> "A"
         [] r = 4 -> "E"
         [] r = 5 -> "B"
         [] OTHER -> "F"

\* Mutant: the dividend without the Key::MAX term
Tpc_alteration_numerator_NoKeyMax(self, key, oc) ==
    LET tpc == TpcAsI8(self)
        k == KeyAsI8(key)
    IN Bind(I8Arith(tpc - k, oc), LAMBDA a :
            I8Arith(a - TpcAsI8(Tpc_MIN), oc))

\* The dividend of Tpc::alteration: tpc - key - MIN + MAX, left to right
Tpc_alteration_numerator(self, key, oc) ==
    LET tpc == TpcAsI8(self)
        k == KeyAsI8(key)
    IN Bind(I8Arith(tpc - k, oc), LAMBDA a :
       Bind(I8Arith(a - TpcAsI8(Tpc_MIN), oc), LAMBDA b :
            I8Arith(b + KeyAsI8(Key_MAX), oc)))

\* Mutant: the quotient without the bias that keeps the dividend positive
Tpc_alteration_NoBias(self, key, oc) ==
    Bind(I8Arith(TpcAsI8(self) - KeyAsI8(key), oc), LAMBDA n :
         Val(TruncDiv(n, DELTA_SEMITONE)))

\* Tpc::alteration
Tpc_alteration(self, key, oc) ==
    Bind(Tpc_alteration_numerator(self, key, oc), LAMBDA n :
         I8Arith(TruncDiv(n, DELTA_SEMITONE) - 3, oc))

\* Mutant: the accidental without the shift that puts F at the start of a row
Tpc_accidental_NoShift(self, oc) ==
    LET q == DivEuclid(TpcAsI8(self), 7)
    IN CASE q = -2 -> Val("DblFlat")
         [] q = -1 -> Val("Flat")
         [] q = 0 -> Val("Natural")
         [] q = 1 -> Val("Sharp")
         [] q = 2 -> Val("DblSharp")
         [] OTHER -> Panic

\* Tpc::accidental
Tpc_accidental(self, oc) ==
    Bind(I8Arith(TpcAsI8(self) + 1, oc), LAMBDA v :
         LET q == DivEuclid(v, 7)
         IN CASE q = -2 -> Val("DblFlat")
              [] q = -1 -> Val("Flat")
              [] q = 0 -> Val("Natural")
              [] q = 1 -> Val("Sharp")
              [] q = 2 -> Val("DblSharp")
              [] OTHER -> Panic)

\* Tpc::alter
Tpc_alter(self, by, oc) ==
    Bind(I8Arith(by * DELTA_SEMITONE, oc), LAMBDA m :
    Bind(I8Arith(TpcAsI8(self) + m, oc), LAMBDA new :
         Tpc_from_i8(new)))

\* impl Add<Interval> for Tpc
Tpc_add(self, rhs, oc) ==
    Bind(I8Arith(TpcAsI8(self) + IntervalAsI8(rhs), oc), LAMBDA value :
         Tpc_from_i8(value))

\* Mutant: subtraction that adds
Tpc_sub_AsAdd(self, rhs, oc) ==
    Bind(I8Arith(TpcAsI8(self) + IntervalAsI8(rhs), oc), LAMBDA value :
         Tpc_from_i8(value))

\* impl Sub<Interval> for Tpc
Tpc_sub(self, rhs, oc) ==
    Bind(I8Arith(TpcAsI8(self) - IntervalAsI8(rhs), oc), LAMBDA value :
         Tpc_from_i8(value))

----------------------------------------------------------------------------
\* Interval

\* Mutant: addition that subtracts
Interval_add_AsSub(self, rhs, oc) ==
    Bind(I8Arith(IntervalAsI8(self) - IntervalAsI8(rhs), oc), LAMBDA v :
         Interval_from_i8(v))

\* impl Add<Interval> for Interval
Interval_add(self, rhs, oc) ==
    Bind(I8Arith(IntervalAsI8(self) + IntervalAsI8(rhs), oc), LAMBDA v :
         Interval_from_i8(v))

\* impl Sub<Interval> for Interval
Interval_sub(self, rhs, oc) ==
    Bind(I8Arith(IntervalAsI8(self) - IntervalAsI8(rhs), oc), LAMBDA v :
         Interval_from_i8(v))

----------------------------------------------------------------------------
\* Key

\* Each scale degree's distance from the root, in fifths
OFFSETS == << 0, 2, 4, -1, 1, 3, 5 >>

\* Key::root
Key_root(self) == Unwrap(Tpc_from_i8(KeyAsI8(self)))

\* Mutant: the degree reduced with the truncating remainder `%`, which is
\* negative for a negative degree and then far out of bounds as a usize
Key_scale_degree_Rem(self, degree, oc) ==
    LET r == IF degree >= 0 THEN degree % 7 ELSE -((-degree) % 7)
    IN IF r < 0 THEN Panic
       ELSE Bind(I8Arith(KeyAsI8(self) + OFFSETS[r + 1], oc), LAMBDA value :
                 Unwrap(Tpc_from_i8(value)))

\* Key::scale_degree
Key_scale_degree(self, degree, oc) ==
    Bind(I8Arith(KeyAsI8(self) + OFFSETS[RemEuclid(degree, 7) + 1], oc), LAMBDA value :
         Unwrap(Tpc_from_i8(value)))

----------------------------------------------------------------------------
\* Step

SPELLINGS ==
    << "Cbb", "Cb", "C", "Cs", "Css",
       "Dbb", "Db", "D", "Ds", "Dss",
       "Ebb", "Eb", "E", "Es", "Ess",
       "Fbb", "Fb", "F", "Fs", "Fss",
       "Gbb", "Gb", "G", "Gs", "Gss",
       "Abb", "Ab", "A", "As", "Ass",
       "Bbb", "Bb", "B", "Bs", "Bss" >>

\* Indexing an array by a usize: out of bounds panics
IndexArray(arr, i) == IF i < Len(arr) THEN Val(arr[i + 1]) ELSE Panic

\* usize::try_from(i).unwrap()
ToUsize(i) == IF i >= 0 THEN Val(i) ELSE Panic

\* Mutant: the index without the offset of the double flat
Step_with_accidental_NoOffset(self, alter, oc) ==
    LET step == StepAsI8(self)
        a == AccidentalAsI8(alter)
    IN Bind(I8Arith(step * 5, oc), LAMBDA x :
       Bind(I8Arith(x + a, oc), LAMBDA i :
       Bind(ToUsize(i), LAMBDA u :
            IndexArray(SPELLINGS, u))))

\* Step::with_accidental
Step_with_accidental(self, alter, oc) ==
    LET step == StepAsI8(self)
        a == AccidentalAsI8(alter)
    IN Bind(I8Arith(step * 5, oc), LAMBDA x :
       Bind(I8Arith(x + a, oc), LAMBDA y :
       Bind(I8Arith(y + 2, oc), LAMBDA i :
       Bind(ToUsize(i), LAMBDA u :
            IndexArray(SPELLINGS, u)))))

BY_STEP_AND_KEY ==
    << "Cb", "Db", "Eb", "Fb", "Gb", "Ab", "Bb",
       "Cb", "Db", "Eb", "F",  "Gb", "Ab", "Bb",
       "C",  "Db", "Eb", "F",  "Gb", "Ab", "Bb",
       "C",  "Db", "Eb", "F",  "G",  "Ab", "Bb",
       "C",  "D",  "Eb", "F",  "G",  "Ab", "Bb",
       "C",  "D",  "Eb", "F",  "G",  "A",  "Bb",
       "C",  "D",  "E",  "F",  "G",  "A",  "Bb",
       "C",  "D",  "E",  "F",  "G",  "A",  "B",
       "C",  "D",  "E",  "Fs", "G",  "A",  "B",
       "Cs", "D",  "E",  "Fs", "G",  "A",  "B",
       "Cs", "D",  "E",  "Fs", "Gs", "A",  "B",
       "Cs", "Ds", "E",  "Fs", "Gs", "A",  "B",
       "Cs", "Ds", "E",  "Fs", "Gs", "As", "B",
       "Cs", "Ds", "Es", "Fs", "Gs", "As", "B",
       "Cs", "Ds", "Es", "Fs", "Gs", "As", "Bs" >>

\* Mutant: the table read as if laid out step-major
Step_with_key_Transposed(self, key, oc) ==
    Bind(I8Arith(KeyAsI8(key) - KeyAsI8(Key_MIN), oc), LAMBDA d :
    Bind(ToUsize(d), LAMBDA k :
         IndexArray(BY_STEP_AND_KEY, Key_NUM_OF * StepAsI8(self) + k)))

\* Step::with_key
Step_with_key(self, key, oc) ==
    Bind(I8Arith(KeyAsI8(key) - KeyAsI8(Key_MIN), oc), LAMBDA d :
    Bind(ToUsize(d), LAMBDA k :
         IndexArray(BY_STEP_AND_KEY, 7 * k + StepAsI8(self))))

\* impl From<Tpc> for Step
Step_from(tpc) ==
    CASE tpc \in {"Bbb", "Bb", "B", "Bs", "Bss"} -> "B"
      [] tpc \in {"Fbb", "Fb", "F", "Fs", "Fss"} -> "F"
      [] tpc \in {"Cbb", "Cb", "C", "Cs", "Css"} -> "C"
      [] tpc \in {"Gbb", "Gb", "G", "Gs", "Gss"} -> "G"
      [] tpc \in {"Dbb", "Db", "D", "Ds", "Dss"} -> "D"
      [] tpc \in {"Abb", "Ab", "A", "As", "Ass"} -> "A"
      [] tpc \in {"Ebb", "Eb", "E", "Es", "Ess"} -> "E"

\* impl Add<isize> for Step
Step_add(self, rhs, oc) ==
    Bind(ISizeArith(StepAsI8(self) + rhs, oc), LAMBDA sum :
         Unwrap(FromPrimitive(StepNames, StepFirst, RemEuclid(sum, 7))))

\* impl Sub<isize> for Step
Step_sub(self, rhs, oc) ==
    Bind(ISizeArith(-rhs, oc), LAMBDA neg :
         Step_add(self, neg, oc))

\* Tpc::altered_step; key is an Option<Key>
Tpc_altered_step(self, key, oc) ==
    LET k == IF key.kind = "Some" THEN key.val ELSE Key_default
        step == Tpc_step(self)
    IN Bind(Step_with_key(step, k, oc), LAMBDA w :
            IF w = self
            THEN Val(<< step, None >>)
            ELSE Bind(Tpc_accidental(self, oc), LAMBDA a :
                      Val(<< step, Some(a) >>)))

----------------------------------------------------------------------------
\* The two groupings of a double transposition, as the property test
\* tpc_interval_interval_associative computes them:
\*   res1 = (i1 + i2).map(|i| tpc + i),  res2 = (tpc + i1).map(|t| t + i2)
Transpose_res1(tpc, i1, i2, oc) ==
    BindR(Interval_add(i1, i2, oc), LAMBDA s :
          IF s.kind = "Some"
          THEN BindR(Tpc_add(tpc, s.val, oc), LAMBDA r : Some(r))
          ELSE None)

Transpose_res2(tpc, i1, i2, oc) ==
    BindR(Tpc_add(tpc, i1, oc), LAMBDA s :
          IF s.kind = "Some"
          THEN BindR(Tpc_add(s.val, i2, oc), LAMBDA r : Some(r))
          ELSE None)

----------------------------------------------------------------------------
\* State: the call being made and its outcome.
VARIABLES call, ret
vars == << call, ret >>

Degrees == -MaxDegree .. MaxDegree

\* The isize operands of Step arithmetic: around zero and at both ends of
\* the type
StepOperands ==
    (ISIZE_MIN .. ISIZE_MIN + MaxOperand)
    \cup (-MaxOperand .. MaxOperand)
    \cup (ISIZE_MAX - MaxOperand .. ISIZE_MAX)
OptionKey == {None} \cup {Some(k) : k \in Key}

\* The calls a client can make: every operation on every argument of its
\* declared types, under either overflow setting of the build.
Init ==
    /\ ret = Pending
    /\ \/ \E t \in Tpc, k \in OptionKey, b \in BOOLEAN :
            call = [op |-> "altered_step", tpc |-> t, okey |-> k, oc |-> b]
       \/ \E t \in Tpc, d \in Alteration, b \in BOOLEAN :
            call = [op |-> "alter", tpc |-> t, by |-> d, oc |-> b]
       \/ \E o \in {"tpc_add", "tpc_sub"}, t \in Tpc, i \in Interval, b \in BOOLEAN :
            call = [op |-> o, tpc |-> t, interval |-> i, oc |-> b]
       \/ \E o \in {"interval_add", "interval_sub"}, i \in Interval, j \in Interval, b \in BOOLEAN :
            call = [op |-> o, lhs |-> i, rhs |-> j, oc |-> b]
       \/ \E t \in Tpc, i \in Interval, j \in Interval, b \in BOOLEAN :
            call = [op |-> "transpose2", tpc |-> t, i1 |-> i, i2 |-> j, oc |-> b]
       \/ \E s \in Step, k \in Key, b \in BOOLEAN :
            call = [op |-> "with_key", step |-> s, key |-> k, oc |-> b]
       \/ \E s \in Step, a \in Accidental, b \in BOOLEAN :
            call = [op |-> "with_accidental", step |-> s, acc |-> a, oc |-> b]
       \/ \E t \in Tpc, k \in Key, b \in BOOLEAN :
            call = [op |-> "alteration", tpc |-> t, key |-> k, oc |-> b]
       \/ \E k \in Key, n \in Degrees, b \in BOOLEAN :
            call = [op |-> "scale_degree", key |-> k, degree |-> n, oc |-> b]
       \/ \E k \in Key :
            call = [op |-> "root", key |-> k]
       \/ \E o \in {"step_add", "step_sub"}, s \in Step, n \in StepOperands, b \in BOOLEAN :
            call = [op |-> o, step |-> s, n |-> n, oc |-> b]
       \/ \E o \in {"step", "step_from"}, t \in Tpc :
            call = [op |-> o, tpc |-> t]

Do(o, r) ==
    /\ call.op = o
    /\ ret.kind = "Pending"
    /\ ret' = r
    /\ UNCHANGED call

AlteredStep == Do("altered_step", Tpc_altered_step(call.tpc, call.okey, call.oc))
Alter == Do("alter", Tpc_alter(call.tpc, call.by, call.oc))
TpcAdd == Do("tpc_add", Tpc_add(call.tpc, call.interval, call.oc))
TpcSub == Do("tpc_sub", Tpc_sub(call.tpc, call.interval, call.oc))
IntervalAdd == Do("interval_add", Interval_add(call.lhs, call.rhs, call.oc))
IntervalSub == Do("interval_sub", Interval_sub(call.lhs, call.rhs, call.oc))
Transpose2 ==
    Do("transpose2",
       [kind |-> "Pair",
        res1 |-> Transpose_res1(call.tpc, call.i1, call.i2, call.oc),
        res2 |-> Transpose_res2(call.tpc, call.i1, call.i2, call.oc)])
WithKey == Do("with_key", Step_with_key(call.step, call.key, call.oc))
WithAccidental == Do("with_accidental", Step_with_accidental(call.step, call.acc, call.oc))
AlterationOf == Do("alteration", Tpc_alteration(call.tpc, call.key, call.oc))
ScaleDegree == Do("scale_degree", Key_scale_degree(call.key, call.degree, call.oc))
Root == Do("root", Key_root(call.key))
StepAdd == Do("step_add", Step_add(call.step, call.n, call.oc))
StepSub == Do("step_sub", Step_sub(call.step, call.n, call.oc))
StepOf == Do("step", Val(Tpc_step(call.tpc)))
StepFrom == Do("step_from", Val(Step_from(call.tpc)))

Next ==
    \/ AlteredStep
    \/ Alter
    \/ TpcAdd
    \/ TpcSub
    \/ IntervalAdd
    \/ IntervalSub
    \/ Transpose2
    \/ WithKey
    \/ WithAccidental
    \/ AlterationOf
    \/ ScaleDegree
    \/ Root
    \/ StepAdd
    \/ StepSub
    \/ StepOf
    \/ StepFrom

Spec == Init /\ [][Next]_vars

----------------------------------------------------------------------------
\* Properties

\* The call named o has returned (or panicked).
Done(o) == call.op = o /\ ret.kind # "Pending"
IsVal(r, x) == r.kind = "Val" /\ r.val = x
IsSome(r, x) == r.kind = "Some" /\ r.val = x
TpcRange == -15 .. 19
IntervalRange == -12 .. 12

\* C1: spelling recomposition. For every Tpc t and Key k, with
\* (step, acc) = t.altered_step(Some(k)): if acc is none then
\* step.with_key(k) == t, and if acc is Some(a) then
\* step.with_accidental(a) == t.
C1_Recompose ==
    (Done("altered_step") /\ call.okey.kind = "Some") =>
        /\ ret.kind = "Val"
        /\ LET step == ret.val[1]
               acc == ret.val[2]
           IN /\ acc.kind = "None" =>
                    IsVal(Step_with_key(step, call.okey.val, call.oc), call.tpc)
              /\ acc.kind = "Some" =>
                    IsVal(Step_with_accidental(step, acc.val, call.oc), call.tpc)

\* A pitch that is not diatonic in the key was split into step and accidental.
C1_Witness ==
    /\ Done("altered_step")
    /\ call.okey.kind = "Some"
    /\ ret.kind = "Val"
    /\ ret.val[2].kind = "Some"

\* C2: alter preserves the step. For every Tpc t and every delta d of the
\* Alteration type such that t.alter(d) returns a Tpc, that Tpc has the
\* same step() as t.
C2_AlterKeepsStep ==
    (Done("alter") /\ ret.kind = "Some") =>
        Tpc_step(ret.val) = Tpc_step(call.tpc)

\* C3: partial associativity of transposition. Whenever i1 + i2 is defined
\* and t + i1 is defined, t + (i1 + i2) and (t + i1) + i2 give the same
\* optional result: both absent, or the same Tpc.
C3_Associative ==
    Done("transpose2") =>
        /\ ret.res1.kind # "Panic"
        /\ ret.res2.kind # "Panic"
        /\ (ret.res1.kind = "Some" /\ ret.res2.kind = "Some") =>
              /\ ret.res1.val.kind = ret.res2.val.kind
              /\ ret.res1.val.kind \in {"Some", "None"}
              /\ ret.res1.val.kind = "Some" => ret.res1.val.val = ret.res2.val.val

\* Both groupings of a double transposition produced a Tpc.
C3_Witness ==
    /\ Done("transpose2")
    /\ ret.res1.kind = "Some" /\ ret.res1.val.kind = "Some"
    /\ ret.res2.kind = "Some" /\ ret.res2.val.kind = "Some"
    /\ call.i1 # "Unison" /\ call.i2 # "Unison"

\* The outcome r is Some of the variant with coordinate m when m lies in
\* range, and none otherwise.
CheckedResult(r, m, range, names, first) ==
    IF m \in range
    THEN r.kind = "Some" /\ AsInt(names, first, r.val) = m
    ELSE r.kind = "None"

\* C4: checked transposition. t + i (t - i) is Some(u) with u.coordinate =
\* t.coordinate + i.coordinate (minus) exactly when that value lies in
\* -15..19 and none otherwise; a + b and a - b of Intervals are Some exactly
\* when the sum/difference lies in -12..12. No case wraps or panics.
C4_Checked ==
    /\ Done("tpc_add") =>
          CheckedResult(ret, TpcAsI8(call.tpc) + IntervalAsI8(call.interval),
                        TpcRange, TpcNames, TpcFirst)
    /\ Done("tpc_sub") =>
          CheckedResult(ret, TpcAsI8(call.tpc) - IntervalAsI8(call.interval),
                        TpcRange, TpcNames, TpcFirst)
    /\ Done("interval_add") =>
          CheckedResult(ret, IntervalAsI8(call.lhs) + IntervalAsI8(call.rhs),
                        IntervalRange, IntervalNames, IntervalFirst)
    /\ Done("interval_sub") =>
          CheckedResult(ret, IntervalAsI8(call.lhs) - IntervalAsI8(call.rhs),
                        IntervalRange, IntervalNames, IntervalFirst)
    /\ (Done("tpc_add") /\ call.tpc = "Fbb" /\ call.interval = "Dim5") => ret.kind = "None"
    /\ (Done("tpc_add") /\ call.tpc = "Dss" /\ call.interval = "Maj3") => ret.kind = "None"

\* A transposition below the flattest Tpc was refused.
C4_Witness ==
    /\ Done("tpc_sub")
    /\ call.tpc = "Cbb" /\ call.interval = "Maj2"
    /\ ret.kind = "None"

\* C5: alter overflow policy. For every Tpc t and every i8 delta d,
\* t.alter(d) is Some(u) with u.coordinate = t.coordinate + 7*d iff the
\* unbounded value t.coordinate + 7*d lies in -15..19, and none otherwise;
\* the 8-bit computation never wraps to an in-range coordinate and never
\* panics.
C5_AlterChecked ==
    Done("alter") =>
        CheckedResult(ret, TpcAsI8(call.tpc) + 7 * call.by,
                      TpcRange, TpcNames, TpcFirst)

\* The degrees of key k whose Tpc sits on step s
DegreesOnStep(k, s, oc) ==
    {n \in 0 .. 6 : LET d == Key_scale_degree(k, n, oc)
                    IN d.kind = "Val" /\ Tpc_step(d.val) = s}

\* C6: with_key is the diatonic spelling. For every Step s and Key k there
\* is exactly one degree n in 0..6 with k.scale_degree(n).step() == s, and
\* s.with_key(k) equals k.scale_degree(n) for that n; consequently
\* s.with_key(k).step() == s.
C6_Diatonic ==
    Done("with_key") =>
        LET degs == DegreesOnStep(call.key, call.step, call.oc)
        IN /\ Cardinality(degs) = 1
           /\ ret.kind = "Val"
           /\ \A n \in degs : ret.val = Key_scale_degree(call.key, n, call.oc).val
           /\ Tpc_step(ret.val) = call.step

\* A step was spelled in a key that alters it.
C6_Witness ==
    /\ Done("with_key")
    /\ call.step = "F" /\ call.key = "D"
    /\ IsVal(ret, "Fs")

\* C7: alteration is the semitone distance from the key's diatonic
\* spelling. With a = t.alteration(k): t.coordinate =
\* t.step().with_key(k).coordinate + 7*a, equivalently
\* t.step().with_key(k).alter(a) == Some(t); a lies in -3..3; and a == 0
\* exactly when t is a scale degree of k.
C7_Alteration ==
    Done("alteration") =>
        /\ ret.kind = "Val"
        /\ ret.val \in -3 .. 3
        /\ LET w == Step_with_key(Tpc_step(call.tpc), call.key, call.oc)
           IN /\ w.kind = "Val"
              /\ TpcAsI8(call.tpc) = TpcAsI8(w.val) + 7 * ret.val
              /\ IsSome(Tpc_alter(w.val, ret.val, call.oc), call.tpc)
        /\ (ret.val = 0) <=>
              (\E n \in 0 .. 6 : IsVal(Key_scale_degree(call.key, n, call.oc), call.tpc))

\* The extreme alteration: F double flat in C sharp major.
C7_Witness ==
    /\ Done("alteration")
    /\ call.tpc = "Fbb" /\ call.key = "Cs"
    /\ IsVal(ret, -3)

\* C8 as stated: in Tpc.alteration(key) the numerator t.coordinate -
\* k.coordinate - Tpc.MIN + Key.MAX is an exact multiple of 7, so that
\* truncating and floor division by 7 give the same quotient.
C8_NumeratorMultipleOf7 ==
    Done("alteration") =>
        LET n == Tpc_alteration_numerator(call.tpc, call.key, call.oc)
        IN /\ n.kind = "Val"
           /\ n.val % 7 = 0
           /\ TruncDiv(n.val, 7) = DivEuclid(n.val, 7)

\* C8 amended: the numerator is never negative (it lies in 0..48), so that
\* truncating and floor division by 7 give the same quotient.
C8_NumeratorNonNegative ==
    Done("alteration") =>
        LET n == Tpc_alteration_numerator(call.tpc, call.key, call.oc)
        IN /\ n.kind = "Val"
           /\ n.val \in 0 .. 48
           /\ TruncDiv(n.val, 7) = DivEuclid(n.val, 7)
           /\ IsVal(ret, DivEuclid(n.val, 7) - 3)

\* An alteration whose numerator (22) is not a multiple of 7.
C8_Witness ==
    /\ Done("alteration")
    /\ call.tpc = "C" /\ call.key = "C"
    /\ IsVal(ret, 0)

\* Position of a step on the circle of fifths starting at F
fifths_position(s) ==
    CASE s = "F" -> 0
      [] s = "C" -> 1
      [] s = "G" -> 2
      [] s = "D" -> 3
      [] s = "A" -> 4
      [] s = "E" -> 5
      [] s = "B" -> 6

\* C9: with_accidental matches the closed form. s.with_accidental(a) has
\* coordinate 7*(level(a) + 2) + fifths_position(s) - 15; the table index
\* is always in 0..34 (no panic), the result is always in -15..19, and it
\* is the unique Tpc whose step() is s and whose accidental() is a.
C9_ClosedForm ==
    Done("with_accidental") =>
        /\ ret.kind = "Val"
        /\ StepAsI8(call.step) * 5 + AccidentalAsI8(call.acc) + 2 \in 0 .. 34
        /\ TpcAsI8(ret.val) =
              7 * (AccidentalAsI8(call.acc) + 2) + fifths_position(call.step) - 15
        /\ TpcAsI8(ret.val) \in TpcRange
        /\ {t \in Tpc : /\ Tpc_step(t) = call.step
                        /\ IsVal(Tpc_accidental(t, call.oc), call.acc)} = {ret.val}

\* The last entry of the table: B double sharp.
C9_Witness ==
    /\ Done("with_accidental")
    /\ call.step = "B" /\ call.acc = "DblSharp"
    /\ IsVal(ret, "Bss")

\* Fifths distance of each major-scale degree from the tonic
DegreeOffsets == << 0, 2, 4, -1, 1, 3, 5 >>

\* C10: key scale degrees. For every Key K and every integer degree n
\* (negative n and n >= 7 included) K.scale_degree(n) never fails and
\* returns the Tpc with coordinate K.coordinate + OFFSETS[n mod 7]
\* (Euclidean), which lies in -15..19; K.root() == K.scale_degree(0) and
\* both have the coordinate of K.
C10_ScaleDegree ==
    /\ Done("scale_degree") =>
          /\ ret.kind = "Val"
          /\ TpcAsI8(ret.val) = KeyAsI8(call.key) + DegreeOffsets[(call.degree % 7) + 1]
          /\ TpcAsI8(ret.val) \in TpcRange
    /\ (Done("scale_degree") /\ call.degree = 0) =>
          /\ ret.kind = "Val"
          /\ IsVal(Key_root(call.key), ret.val)
          /\ TpcAsI8(ret.val) = KeyAsI8(call.key)
    /\ Done("root") =>
          /\ ret.kind = "Val"
          /\ TpcAsI8(ret.val) = KeyAsI8(call.key)
          /\ \A b \in BOOLEAN : IsVal(Key_scale_degree(call.key, 0, b), ret.val)

\* A negative degree: degree -1 of C sharp major is its seventh, B sharp.
C10_Witness ==
    /\ Done("scale_degree")
    /\ call.key = "Cs" /\ call.degree = -1
    /\ IsVal(ret, "Bs")

\* C11: Step arithmetic is total. For every Step s and every integer n of
\* the machine integer type, minimum and maximum included, s + n returns the
\* Step with coordinate (s.coordinate + n) mod 7 (Euclidean) and s - n the
\* Step with coordinate (s.coordinate - n) mod 7, with no overflow,
\* wrap-induced wrong result, or panic; hence (s + n) - n == s.
C11_StepTotal ==
    /\ Done("step_add") =>
          /\ ret.kind = "Val"
          /\ StepAsI8(ret.val) = (StepAsI8(call.step) + call.n) % 7
          /\ IsVal(Step_sub(ret.val, call.n, call.oc), call.step)
    /\ Done("step_sub") =>
          /\ ret.kind = "Val"
          /\ StepAsI8(ret.val) = (StepAsI8(call.step) - call.n) % 7

\* The table of Tpc.step: residue of the coordinate -> step
StepOfResidue == << "C", "G", "D", "A", "E", "B", "F" >>

\* C12: the two Tpc-to-Step conversions agree. For every Tpc t, the
\* name-table conversion Step::from(t) equals the arithmetic t.step(), the
\* coordinate rem_euclid 7 mapped through {0:C,1:G,2:D,3:A,4:E,5:B,6:F}.
C12_ConversionsAgree ==
    /\ Done("step_from") =>
          /\ IsVal(ret, Tpc_step(call.tpc))
          /\ ret.val = StepOfResidue[(TpcAsI8(call.tpc) % 7) + 1]
    /\ Done("step") =>
          /\ IsVal(ret, Step_from(call.tpc))
          /\ ret.val = StepOfResidue[(TpcAsI8(call.tpc) % 7) + 1]

\* A flat with a negative coordinate was converted by name: E flat is on E.
C12_Witness ==
    /\ Done("step_from")
    /\ call.tpc = "Eb"
    /\ IsVal(ret, "E")
====
